---- MODULE Spec2Model ----
(***************************************************************************)
(* Project provisioning and metadata synchronisation of the ssp-backend    *)
(* OpenShift plugin (server/openshift/project.go).                         *)
(*                                                                         *)
(* Go strings are modelled as sequences: a project name or a user name is  *)
(* a sequence of one-character strings (so that strings.ToLower,           *)
(* strings.ToUpper and "+" are computed), every other string is a sequence *)
(* of tokens; the empty string is << >> and len(s) is Len(s).              *)
(*                                                                         *)
(* Two request handlers run concurrently.  Every action is one blocking    *)
(* HTTP call of a handler together with the sequential code around it, up  *)
(* to the next call.  The cluster (the platform's object store) is shared. *)
(***************************************************************************)
EXTENDS Naturals, Sequences, FiniteSets, TLC

VARIABLES
    namespaces,    \* the cluster: project name -> namespace document
    rolebindings,  \* the cluster: project name -> admin role-binding document
    writer,        \* history: project name -> the call whose PUT wrote the namespace last
    pc,            \* per handler: the call it is blocked before
    op,            \* per handler: which handler / function is running
    args,          \* per handler: the parameters of the running call
    local,         \* per handler: the local variables of the running call
    sent,          \* per handler: the HTTP requests issued by the running request
    responses,     \* per handler: the c.JSON responses written by the running request
    ret,           \* per handler: the error returned by the called function
    mail,          \* per handler: what became of sendNewProjectMail
    granted,       \* history: project name -> the users whose grant was written, in order
    started        \* number of requests started so far

vars == <<namespaces, rolebindings, writer, granted, pc, op, args, local, sent,
          responses, ret, mail, started>>

(***************************************************************************)
(* Bounds of the model.                                                    *)
(***************************************************************************)
MaxRequests == 2

Procs == {"h1", "h2"}

\* the configured cluster and an identifier that is not configured
Clusters == {"c1"}
ClusterIds == {"c1", "cx"}

\* the values a request may carry
Users == {<<"a">>, <<"B">>}
RequestedNames == {<< >>, <<"P">>, <<"p">>}
Billings == {<< >>, <<"k1">>}
MegaIds == {<< >>, <<"m1">>}
\* the values of an update, told apart from those of a creation
QueryClusterIds == {"", "c1", "cx"}
UpdateBillings == {<< >>, <<"k2">>}
UpdateMegaIds == {<< >>, <<"m2">>}

(***************************************************************************)
(* Strings.                                                                *)
(***************************************************************************)
LowerOf(c) ==
    CASE c = "A" -> "a" [] c = "B" -> "b" [] c = "P" -> "p" [] OTHER -> c

UpperOf(c) ==
    CASE c = "a" -> "A" [] c = "b" -> "B" [] c = "p" -> "P" [] OTHER -> c

\* mutant: the name is not lower-cased
ToLower_Identity(s) == s

ToLower(s) == [i \in 1..Len(s) |-> LowerOf(s[i])]

ToUpper(s) == [i \in 1..Len(s) |-> UpperOf(s[i])]

(***************************************************************************)
(* Errors and messages.                                                    *)
(***************************************************************************)
Nil == << >>
ErrProjectName == <<"Project name has to be provided">>
ErrBilling == <<"Accounting number must be provided">>
ErrAlreadyExists == <<"The project already exists">>
ErrClusterMissing == <<"Cluster must be provided">>
ErrProjectMissing == <<"Project name must be provided">>
genericAPIError == <<"genericAPIError">>
wrongAPIUsageError == <<"wrongAPIUsageError">>
ErrClusterUnknown == <<"cluster unknown">>
ErrNoAdmin == <<"no admin permissions">>

ValidationErrors == {ErrProjectName, ErrBilling}

(***************************************************************************)
(* Documents.                                                              *)
(***************************************************************************)
KeyBilling == "openshift.io/kontierung-element"
KeyRequester == "openshift.io/requester"
KeyMegaId == "openshift.io/MEGAID"
KeyDays == "openshift.io/testproject-daystodeletion"
KeyDescription == "openshift.io/description"
KeyDisplayName == "openshift.io/display-name"

EmptyAnn == [k \in {} |-> << >>]

NoDoc == [kind |-> "none", annotations |-> EmptyAnn]
\* the JSON error object of the platform: it has no metadata.annotations
StatusDoc == [kind |-> "Status", annotations |-> EmptyAnn]
\* a body that is not JSON
GarbageDoc == [kind |-> "garbage", annotations |-> EmptyAnn]

NoBinding == [userNames |-> << >>]

\* the project list of a cluster: {"kind": "ProjectList", "items": [...]}
ProjectList(items) ==
    [kind |-> "ProjectList", annotations |-> EmptyAnn, items |-> items]

\* the platform's own service account, requester of every project it creates
ServiceAccount == <<"s">>

\* the namespace and the admin role binding of a project the platform just created
FreshNamespace ==
    [kind |-> "Namespace",
     annotations |-> (KeyRequester :> ServiceAccount) @@ (KeyDisplayName :> << >>)
                     @@ (KeyDescription :> << >>)]

FreshBinding == [userNames |-> <<ServiceAccount>>]

testProjectDeletionDays == <<"testProjectDeletionDays">>

TestBilling == <<"keine-verrechnung">>

\* fmt.Sprintf("Dieses Testprojekt wird in %v Tagen automatisch geloescht!", days)
TestDescription ==
    <<"Dieses Testprojekt wird in ">> \o testProjectDeletionDays
        \o <<" Tagen automatisch geloescht!">>

\* gabs: container.Set(value, key) on the object at metadata.annotations.  The
\* container shares the map of the parsed document, so the document changes; a
\* document without metadata.annotations yields a detached container and the
\* document stays as it is.
AnnSet(doc, value, key) ==
    IF doc.kind = "Namespace"
      THEN [doc EXCEPT !.annotations =
               [k \in (DOMAIN doc.annotations) \cup {key} |->
                   IF k = key THEN value ELSE doc.annotations[k]]]
      ELSE doc

\* gabs: Path("metadata.annotations").S(key).Data(), nil when absent
AnnData(doc, key) ==
    IF key \in DOMAIN doc.annotations THEN <<doc.annotations[key]>> ELSE << >>

\* bound: c.BindJSON succeeded; requested: the project name of the request body
NoArgs ==
    [bound |-> FALSE, requested |-> << >>, cluster |-> "c1", project |-> << >>,
     billing |-> << >>, megaid |-> << >>, username |-> << >>, test |-> FALSE]

NoInfo == [kontierungsnummer |-> << >>, megaid |-> << >>]
\* replaced: the document the PUT of the call replaced; lastMegaId: the last
\* MEGA-ID that was not empty among the calls that wrote the namespace so far;
\* overlap: one of these calls replaced a document other than the one it fetched
NoWriter ==
    [op |-> "none", args |-> NoArgs, replaced |-> NoDoc, lastMegaId |-> << >>,
     overlap |-> FALSE]

NoLocal ==
    [project |-> << >>, before |-> NoDoc, json |-> NoDoc, rbBefore |-> NoBinding,
     rb |-> NoBinding, pi |-> NoInfo, projectNames |-> << >>]

(***************************************************************************)
(* The functions of project.go that compute without the network.           *)
(***************************************************************************)
\* mutant: the billing is not looked at
validateNewProject_NoBilling(project, billing, testProject) ==
    IF Len(project) = 0 THEN ErrProjectName ELSE Nil

\* mutant: a test project needs a billing too
validateNewProject_IgnoresTest(project, billing, testProject) ==
    IF Len(project) = 0
      THEN ErrProjectName
      ELSE IF Len(billing) = 0 THEN ErrBilling ELSE Nil

validateNewProject(project, billing, testProject) ==
    IF Len(project) = 0
      THEN ErrProjectName
      ELSE IF ~testProject /\ Len(billing) = 0 THEN ErrBilling ELSE Nil

\* mutant: the requested name is used as it is
TestProjectName_NoPrefix(username, project) == project

\* newTestProjectHandler: data.Project = username + "-" + data.Project
TestProjectName(username, project) == username \o <<"-">> \o project

\* createNewProject, the decision on the answer to the creation POST: the error it
\* returns, or Continue when it goes on to changeProjectPermission
Continue == <<"(continue)">>

\* mutant: every error of the HTTP client becomes the generic error
createNewProjectResult_GenericError(r) ==
    IF r.err # Nil THEN genericAPIError
    ELSE IF r.status = 201 THEN Continue
    ELSE IF r.status = 409 THEN ErrAlreadyExists
    ELSE genericAPIError

\* mutant: a conflict is taken for a creation
createNewProjectResult_ConflictContinues(r) ==
    IF r.err # Nil THEN r.err
    ELSE IF r.status = 201 \/ r.status = 409 THEN Continue
    ELSE genericAPIError

\* mutant: only a conflict ends the creation
createNewProjectResult_AnyStatusContinues(r) ==
    IF r.err # Nil THEN r.err
    ELSE IF r.status = 409 THEN ErrAlreadyExists
    ELSE Continue

createNewProjectResult(r) ==
    IF r.err # Nil THEN r.err
    ELSE IF r.status = 201 THEN Continue
    ELSE IF r.status = 409 THEN ErrAlreadyExists
    ELSE genericAPIError

\* mutant: only the lower-case form is appended
AppendAdmins_LowerOnly(binding, username) ==
    [binding EXCEPT !.userNames = Append(@, ToLower(username))]

\* changeProjectPermission: the two ArrayAppend calls on "userNames"
AppendAdmins(binding, username) ==
    [binding EXCEPT !.userNames =
        Append(Append(@, ToLower(username)), ToUpper(username))]

\* mutant: the status of the answer to the PUT is not looked at
changeProjectPermissionResult_IgnoresStatus(r) ==
    IF r.err # Nil THEN r.err ELSE Nil

\* changeProjectPermission, the decision on the answer to the PUT
changeProjectPermissionResult(r) ==
    IF r.err # Nil THEN r.err
    ELSE IF r.status = 200 THEN Nil
    ELSE genericAPIError

\* mutant: the MEGA-ID annotation is set whatever its length
SetAnnotations_AlwaysMegaId(doc, billing, megaid, username, testProject) ==
    LET d1 == AnnSet(doc, billing, KeyBilling)
        d2 == AnnSet(d1, username, KeyRequester)
        d3 == IF testProject
                THEN AnnSet(AnnSet(d2, testProjectDeletionDays, KeyDays),
                            TestDescription, KeyDescription)
                ELSE d2
    IN  AnnSet(d3, megaid, KeyMegaId)

\* mutant: a call that is no test resets the two test annotations
SetAnnotations_ResetsTestKeys(doc, billing, megaid, username, testProject) ==
    LET d1 == AnnSet(doc, billing, KeyBilling)
        d2 == AnnSet(d1, username, KeyRequester)
        d3 == IF testProject
                THEN AnnSet(AnnSet(d2, testProjectDeletionDays, KeyDays),
                            TestDescription, KeyDescription)
                ELSE AnnSet(AnnSet(d2, << >>, KeyDays), << >>, KeyDescription)
    IN  IF Len(megaid) > 0 THEN AnnSet(d3, megaid, KeyMegaId) ELSE d3

\* mutant: the requester is set by a test project only
SetAnnotations_KeepsRequester(doc, billing, megaid, username, testProject) ==
    LET d1 == AnnSet(doc, billing, KeyBilling)
        d3 == IF testProject
                THEN AnnSet(AnnSet(AnnSet(d1, username, KeyRequester),
                                   testProjectDeletionDays, KeyDays),
                            TestDescription, KeyDescription)
                ELSE d1
    IN  IF Len(megaid) > 0 THEN AnnSet(d3, megaid, KeyMegaId) ELSE d3

\* createOrUpdateMetadata: the annotations.Set calls between the GET and the PUT
SetAnnotations(doc, billing, megaid, username, testProject) ==
    LET d1 == AnnSet(doc, billing, KeyBilling)
        d2 == AnnSet(d1, username, KeyRequester)
        d3 == IF testProject
                THEN AnnSet(AnnSet(d2, testProjectDeletionDays, KeyDays),
                            TestDescription, KeyDescription)
                ELSE d2
    IN  IF Len(megaid) > 0 THEN AnnSet(d3, megaid, KeyMegaId) ELSE d3

\* mutant: the status of the answer to the PUT is not looked at
createOrUpdateMetadataResult_IgnoresStatus(r) ==
    IF r.err # Nil THEN r.err ELSE Nil

\* mutant: only a server error fails the call
createOrUpdateMetadataResult_Accepts4xx(r) ==
    IF r.err # Nil THEN r.err
    ELSE IF r.status < 500 THEN Nil
    ELSE genericAPIError

\* createOrUpdateMetadata, the decision on the answer to the PUT
createOrUpdateMetadataResult(r) ==
    IF r.err # Nil THEN r.err
    ELSE IF r.status = 200 THEN Nil
    ELSE genericAPIError

\* mutant: an absent annotation is not replaced by ""
ProjectInformation_NoDefault(doc) ==
    LET billing == AnnData(doc, KeyBilling)
        megaid == AnnData(doc, KeyMegaId)
    IN  [kontierungsnummer |-> IF billing = << >> THEN <<"null">> ELSE billing[1],
         megaid |-> IF megaid = << >> THEN <<"null">> ELSE megaid[1]]

\* getProjectInformation: the two annotations, "" when absent
ProjectInformation(doc) ==
    LET billing == AnnData(doc, KeyBilling)
        megaid == AnnData(doc, KeyMegaId)
    IN  [kontierungsnummer |-> IF billing = << >> THEN << >> ELSE billing[1],
         megaid |-> IF megaid = << >> THEN << >> ELSE megaid[1]]

(***************************************************************************)
(* The per-cluster HTTP client and the platform behind it.                 *)
(***************************************************************************)
Answer(err, status, body, rb, issued) ==
    [err |-> err, status |-> status, body |-> body, rb |-> rb, issued |-> issued]

\* what the platform answers to a request that reaches it
PlatformAnswer(method, res, project, body) ==
    LET exists == project \in DOMAIN namespaces IN
    CASE method = "POST" ->
           IF exists THEN Answer(Nil, 409, StatusDoc, NoBinding, TRUE)
                     ELSE Answer(Nil, 201, NoDoc, NoBinding, TRUE)
      [] ~exists -> Answer(Nil, 404, StatusDoc, NoBinding, TRUE)
      [] method = "GET" /\ res = "rolebinding" ->
           Answer(Nil, 200, NoDoc, rolebindings[project], TRUE)
      [] method = "GET" /\ res = "namespace" ->
           Answer(Nil, 200, namespaces[project], NoBinding, TRUE)
      [] method = "PUT" /\ res = "namespace" /\ body.kind # "Namespace" ->
           Answer(Nil, 400, StatusDoc, NoBinding, TRUE)
      [] OTHER -> Answer(Nil, 200, NoDoc, NoBinding, TRUE)

\* the project list in every order of its items
ProjectListAnswers ==
    LET names == DOMAIN namespaces
        n == Cardinality(names)
        orders == {o \in [1..n -> names] : \A i, j \in 1..n : o[i] = o[j] => i = j}
    IN  {Answer(Nil, 200, ProjectList([i \in 1..n |-> [name |-> o[i]]]),
                NoBinding, TRUE) : o \in orders}

\* getOseHTTPClient(method, clusterId, path, body): every way the call can end.
\* An unknown cluster fails before a request is issued; a transport failure and an
\* error status from in front of the platform leave the cluster as it is.
getOseHTTPClient(method, clusterId, res, project, body) ==
    IF clusterId \notin Clusters
      THEN {Answer(ErrClusterUnknown, 0, NoDoc, NoBinding, FALSE)}
      ELSE {Answer(genericAPIError, 0, NoDoc, NoBinding, TRUE),
            Answer(Nil, 500, StatusDoc, NoBinding, TRUE)}
           \cup (IF res = "projects"
                   THEN ProjectListAnswers
                   ELSE {PlatformAnswer(method, res, project, body)})
           \cup (IF method = "GET" /\ res \in {"namespace", "projects"}
                   THEN {Answer(Nil, 502, GarbageDoc, NoBinding, TRUE)} ELSE {})

\* the request log of handler p after a call that ended with r
Issue(p, method, res, project, r) ==
    IF r.issued
      THEN [sent EXCEPT ![p] = Append(@, [method |-> method, res |-> res,
                                            project |-> project, status |-> r.status])]
      ELSE sent

\* getAdminRoleBinding: the error it returns for the answer r to its GET
getAdminRoleBindingResult(r) ==
    IF r.err # Nil THEN r.err
    ELSE IF r.status = 200 THEN Nil
    ELSE genericAPIError

\* checkAdminPermissions: the user is among the admins of the project
IsAdmin(binding, username) ==
    \E i \in 1..Len(binding.userNames) :
        ToLower(binding.userNames[i]) = ToLower(username)

(***************************************************************************)
(* Initial state: both handlers idle; the cluster is empty, or holds the    *)
(* project "p" as an earlier successful newProjectHandler request left it.  *)
(***************************************************************************)
InitHandlers ==
    /\ pc = [p \in Procs |-> "idle"]
    /\ op = [p \in Procs |-> "none"]
    /\ args = [p \in Procs |-> NoArgs]
    /\ local = [p \in Procs |-> NoLocal]
    /\ sent = [p \in Procs |-> << >>]
    /\ responses = [p \in Procs |-> << >>]
    /\ ret = [p \in Procs |-> Nil]
    /\ mail = [p \in Procs |-> "none"]
    /\ started = 0

EmptyCluster ==
    /\ namespaces = [x \in {} |-> NoDoc]
    /\ rolebindings = [x \in {} |-> NoBinding]
    /\ writer = [x \in {} |-> NoWriter]
    /\ granted = [x \in {} |-> << >>]

EarlierArgs ==
    [bound |-> TRUE, requested |-> <<"P">>, cluster |-> "c1", project |-> <<"P">>,
     billing |-> <<"k1">>, megaid |-> <<"m1">>, username |-> <<"a">>,
     test |-> FALSE]

EarlierProject ==
    LET a == EarlierArgs
        x == ToLower(a.project)
    IN  /\ namespaces = (x :> SetAnnotations(FreshNamespace, a.billing, a.megaid,
                                             a.username, a.test))
        /\ rolebindings = (x :> AppendAdmins(FreshBinding, a.username))
        /\ writer = (x :> [op |-> "newProject", args |-> a,
                            replaced |-> FreshNamespace,
                            lastMegaId |-> a.megaid, overlap |-> FALSE])
        /\ granted = (x :> <<a.username>>)

Init ==
    /\ EmptyCluster \/ EarlierProject
    /\ InitHandlers

Response(code, msg) == [code |-> code, msg |-> msg]

\* A handler that has answered returns at once: no other handler is observed
\* between its last step and its return, which only forgets its locals.
Running == \A q \in Procs : pc[q] # "done"

\* a handler takes the next request
CanBegin(p) ==
    /\ Running
    /\ pc[p] = "idle"
    /\ started < MaxRequests

Begin(p, name, a, project) ==
    /\ started' = started + 1
    /\ op' = [op EXCEPT ![p] = name]
    /\ args' = [args EXCEPT ![p] = a]
    /\ local' = [local EXCEPT ![p].project = project]
    /\ UNCHANGED <<namespaces, rolebindings, writer, granted, sent, mail>>

\* the handler answers 400 before it called anything
Reject(p, msg) ==
    /\ pc' = [pc EXCEPT ![p] = "done"]
    /\ responses' = [responses EXCEPT ![p] = <<Response(400, msg)>>]
    /\ UNCHANGED ret

Proceed(p, next) ==
    /\ pc' = [pc EXCEPT ![p] = next]
    /\ UNCHANGED <<responses, ret>>

\* sendNewProjectMail: it returns nil, or an error (a variable of the environment
\* is missing, DialAndSend failed)
sendNewProjectMail == {"sent", "failed"}

\* mutant: a mail that cannot be sent fails the request
Return_MailFailureIsFatal(p, err) ==
    /\ pc' = [pc EXCEPT ![p] = "done"]
    /\ ret' = [ret EXCEPT ![p] = err]
    /\ IF op[p] \notin {"newProject", "newTestProject", "updateProjectInformation"}
         THEN UNCHANGED <<responses, mail>>
         ELSE IF err # Nil
           THEN /\ responses' = [responses EXCEPT ![p] = Append(@, Response(400, err))]
                /\ UNCHANGED mail
           ELSE IF op[p] = "newProject"
             THEN \E m \in sendNewProjectMail :
                    /\ mail' = [mail EXCEPT ![p] = m]
                    /\ responses' = [responses EXCEPT ![p] =
                          Append(@, IF m = "sent" THEN Response(200, <<"ok">>)
                                                  ELSE Response(400, genericAPIError))]
             ELSE /\ responses' = [responses EXCEPT ![p] =
                                      Append(@, Response(200, <<"ok">>))]
                  /\ UNCHANGED mail

\* the called function returns err to its caller, which answers the request: the
\* else-branches of newProjectHandler, newTestProjectHandler and
\* updateProjectInformationHandler; a direct call only returns
Return(p, err) ==
    /\ pc' = [pc EXCEPT ![p] = "done"]
    /\ ret' = [ret EXCEPT ![p] = err]
    /\ IF op[p] \notin {"newProject", "newTestProject", "updateProjectInformation"}
         THEN UNCHANGED <<responses, mail>>
         ELSE IF err # Nil
           THEN /\ responses' = [responses EXCEPT ![p] = Append(@, Response(400, err))]
                /\ UNCHANGED mail
           ELSE /\ responses' = [responses EXCEPT ![p] =
                                    Append(@, Response(200, <<"ok">>))]
                /\ IF op[p] = "newProject"
                     THEN \E m \in sendNewProjectMail :
                              mail' = [mail EXCEPT ![p] = m]
                     ELSE UNCHANGED mail

Goto(p, next) ==
    /\ pc' = [pc EXCEPT ![p] = next]
    /\ UNCHANGED <<ret, responses, mail>>

\* the handler function returns to the server
Finish(p) ==
    /\ pc[p] = "done"
    /\ pc' = [pc EXCEPT ![p] = "idle"]
    /\ op' = [op EXCEPT ![p] = "none"]
    /\ args' = [args EXCEPT ![p] = NoArgs]
    /\ local' = [local EXCEPT ![p] = NoLocal]
    /\ sent' = [sent EXCEPT ![p] = << >>]
    /\ responses' = [responses EXCEPT ![p] = << >>]
    /\ ret' = [ret EXCEPT ![p] = Nil]
    /\ mail' = [mail EXCEPT ![p] = "none"]
    /\ UNCHANGED <<namespaces, rolebindings, writer, granted, started>>

(***************************************************************************)
(* newProjectHandler and newTestProjectHandler, up to createNewProject.    *)
(***************************************************************************)
newProjectHandler(p) ==
    /\ CanBegin(p)
    /\ \E bound \in BOOLEAN, c \in ClusterIds, n \in RequestedNames,
       b \in Billings, m \in MegaIds, u \in Users :
        LET a == [bound |-> TRUE, requested |-> n, cluster |-> c, project |-> n,
                  billing |-> b, megaid |-> m, username |-> u, test |-> FALSE]
            err == validateNewProject(n, b, FALSE)
        IN  IF ~bound
              THEN /\ Begin(p, "newProject", [NoArgs EXCEPT !.username = u], << >>)
                   /\ Reject(p, wrongAPIUsageError)
              ELSE /\ Begin(p, "newProject", a, n)
                   /\ IF err # Nil
                        THEN Reject(p, err)
                        ELSE Proceed(p, "createNewProject")

\* mutant: the requested name is validated, before it is prefixed
newTestProjectHandler_ValidatesRequested(p) ==
    /\ CanBegin(p)
    /\ \E bound \in BOOLEAN, c \in ClusterIds, n \in RequestedNames, u \in Users :
        LET project == TestProjectName(u, n)
            a == [bound |-> TRUE, requested |-> n, cluster |-> c,
                  project |-> project, billing |-> TestBilling,
                  megaid |-> << >>, username |-> u, test |-> TRUE]
            err == validateNewProject(n, TestBilling, TRUE)
        IN  IF ~bound
              THEN /\ Begin(p, "newTestProject", [NoArgs EXCEPT !.username = u], << >>)
                   /\ Reject(p, wrongAPIUsageError)
              ELSE /\ Begin(p, "newTestProject", a, project)
                   /\ IF err # Nil
                        THEN Reject(p, err)
                        ELSE Proceed(p, "createNewProject")

newTestProjectHandler(p) ==
    /\ CanBegin(p)
    /\ \E bound \in BOOLEAN, c \in ClusterIds, n \in RequestedNames, u \in Users :
        LET project == TestProjectName(u, n)
            a == [bound |-> TRUE, requested |-> n, cluster |-> c,
                  project |-> project, billing |-> TestBilling,
                  megaid |-> << >>, username |-> u, test |-> TRUE]
            err == validateNewProject(project, TestBilling, TRUE)
        IN  IF ~bound
              THEN /\ Begin(p, "newTestProject", [NoArgs EXCEPT !.username = u], << >>)
                   /\ Reject(p, wrongAPIUsageError)
              ELSE /\ Begin(p, "newTestProject", a, project)
                   /\ IF err # Nil
                        THEN Reject(p, err)
                        ELSE Proceed(p, "createNewProject")

(***************************************************************************)
(* createNewProject: the creation POST.                                    *)
(***************************************************************************)
\* mutant: only the creation POST uses the lower-cased name
createNewProject_LowerOnlyInPost(p) ==
    /\ Running
    /\ pc[p] = "createNewProject"
    /\ LET project == ToLower(local[p].project) IN
       \E r \in getOseHTTPClient("POST", args[p].cluster, "projectrequests",
                                 project, NoDoc) :
          /\ sent' = Issue(p, "POST", "projectrequests", project, r)
          /\ UNCHANGED local
          /\ IF r.status = 201
               THEN /\ namespaces' = (project :> FreshNamespace) @@ namespaces
                    /\ rolebindings' = (project :> FreshBinding) @@ rolebindings
                    /\ writer' = (project :> NoWriter) @@ writer
                    /\ granted' = (project :> << >>) @@ granted
               ELSE UNCHANGED <<namespaces, rolebindings, writer, granted>>
          /\ IF createNewProjectResult(r) = Continue
               THEN Goto(p, "changeProjectPermission")
               ELSE Return(p, createNewProjectResult(r))
    /\ UNCHANGED <<op, args, started>>

\* mutant: a creation POST that is answered 500 is sent once more
createNewProject_RetriesOnce(p) ==
    /\ Running
    /\ pc[p] = "createNewProject"
    /\ LET project == ToLower(local[p].project) IN
       \E r \in getOseHTTPClient("POST", args[p].cluster, "projectrequests",
                                 project, NoDoc) :
          /\ sent' = Issue(p, "POST", "projectrequests", project, r)
          /\ local' = [local EXCEPT ![p].project = project]
          /\ IF r.status = 201
               THEN /\ namespaces' = (project :> FreshNamespace) @@ namespaces
                    /\ rolebindings' = (project :> FreshBinding) @@ rolebindings
                    /\ writer' = (project :> NoWriter) @@ writer
                    /\ granted' = (project :> << >>) @@ granted
               ELSE UNCHANGED <<namespaces, rolebindings, writer, granted>>
          /\ IF r.status = 500 /\ sent[p] = << >>
               THEN Goto(p, "createNewProject")
               ELSE IF createNewProjectResult(r) = Continue
                 THEN Goto(p, "changeProjectPermission")
                 ELSE Return(p, createNewProjectResult(r))
    /\ UNCHANGED <<op, args, started>>

createNewProject(p) ==
    /\ Running
    /\ pc[p] = "createNewProject"
    /\ LET project == ToLower(local[p].project) IN
       \E r \in getOseHTTPClient("POST", args[p].cluster, "projectrequests",
                                 project, NoDoc) :
          /\ sent' = Issue(p, "POST", "projectrequests", project, r)
          /\ local' = [local EXCEPT ![p].project = project]
          /\ IF r.status = 201
               THEN /\ namespaces' = (project :> FreshNamespace) @@ namespaces
                    /\ rolebindings' = (project :> FreshBinding) @@ rolebindings
                    /\ writer' = (project :> NoWriter) @@ writer
                    /\ granted' = (project :> << >>) @@ granted
               ELSE UNCHANGED <<namespaces, rolebindings, writer, granted>>
          /\ IF createNewProjectResult(r) = Continue
               THEN Goto(p, "changeProjectPermission")
               ELSE Return(p, createNewProjectResult(r))
    /\ UNCHANGED <<op, args, started>>

(***************************************************************************)
(* changeProjectPermission: getAdminRoleBinding, the appends, the PUT.     *)
(***************************************************************************)
\* mutant: createNewProject goes on whatever changeProjectPermission returned
AfterPermission_IgnoresError(p, err) ==
    IF op[p] \in {"newProject", "newTestProject"}
      THEN Goto(p, "createOrUpdateMetadata")
      ELSE Return(p, err)

\* where the caller of changeProjectPermission goes when it returned err
AfterPermission(p, err) ==
    IF op[p] \in {"newProject", "newTestProject"} /\ err = Nil
      THEN Goto(p, "createOrUpdateMetadata")
      ELSE Return(p, err)

changeProjectPermission(p) ==
    /\ Running
    /\ pc[p] = "changeProjectPermission"
    /\ \E r \in getOseHTTPClient("GET", args[p].cluster, "rolebinding",
                                 local[p].project, NoDoc) :
          /\ sent' = Issue(p, "GET", "rolebinding", local[p].project, r)
          /\ IF getAdminRoleBindingResult(r) # Nil
               THEN /\ AfterPermission(p, getAdminRoleBindingResult(r))
                    /\ UNCHANGED local
               ELSE /\ local' = [local EXCEPT
                            ![p].rbBefore = r.rb,
                            ![p].rb = AppendAdmins(r.rb, args[p].username)]
                    /\ Goto(p, "changeProjectPermissionPut")
    /\ UNCHANGED <<namespaces, rolebindings, writer, granted, op, args, started>>

changeProjectPermissionPut(p) ==
    /\ Running
    /\ pc[p] = "changeProjectPermissionPut"
    /\ \E r \in getOseHTTPClient("PUT", args[p].cluster, "rolebinding",
                                 local[p].project, NoDoc) :
          /\ sent' = Issue(p, "PUT", "rolebinding", local[p].project, r)
          /\ IF r.status = 200
               THEN /\ rolebindings' =
                          [rolebindings EXCEPT ![local[p].project] = local[p].rb]
                    /\ granted' = [granted EXCEPT ![local[p].project] =
                                      Append(@, args[p].username)]
               ELSE UNCHANGED <<rolebindings, granted>>
          /\ AfterPermission(p, changeProjectPermissionResult(r))
    /\ UNCHANGED <<namespaces, writer, op, args, local, started>>

(***************************************************************************)
(* createOrUpdateMetadata: the GET, the annotations, the PUT.              *)
(***************************************************************************)
createOrUpdateMetadata(p) ==
    /\ Running
    /\ pc[p] = "createOrUpdateMetadata"
    /\ \E r \in getOseHTTPClient("GET", args[p].cluster, "namespace",
                                 local[p].project, NoDoc) :
          /\ sent' = Issue(p, "GET", "namespace", local[p].project, r)
          /\ IF r.err # Nil
               THEN Return(p, r.err) /\ UNCHANGED local
               ELSE IF r.body.kind = "garbage"
                 THEN Return(p, genericAPIError) /\ UNCHANGED local
                 ELSE /\ local' = [local EXCEPT
                              ![p].before = r.body,
                              ![p].json = SetAnnotations(r.body, args[p].billing,
                                              args[p].megaid, args[p].username,
                                              args[p].test)]
                      /\ Goto(p, "createOrUpdateMetadataPut")
    /\ UNCHANGED <<namespaces, rolebindings, writer, granted, op, args, started>>

\* history: the record of the call of p whose PUT is answered 200
WriterAfterPut(p) ==
    LET x == local[p].project IN
    [op |-> op[p], args |-> args[p], replaced |-> namespaces[x],
     lastMegaId |-> IF Len(args[p].megaid) > 0 THEN args[p].megaid
                                               ELSE writer[x].lastMegaId,
     overlap |-> writer[x].overlap \/ namespaces[x] # local[p].before]

\* mutant: the platform applies the annotations of the call to the document it
\* holds, not the document of the call
createOrUpdateMetadataPut_Merge(p) ==
    /\ Running
    /\ pc[p] = "createOrUpdateMetadataPut"
    /\ \E r \in getOseHTTPClient("PUT", args[p].cluster, "namespace",
                                 local[p].project, local[p].json) :
          /\ sent' = Issue(p, "PUT", "namespace", local[p].project, r)
          /\ IF r.status = 200
               THEN /\ namespaces' =
                          [namespaces EXCEPT ![local[p].project] =
                              SetAnnotations(@, args[p].billing, args[p].megaid,
                                             args[p].username, args[p].test)]
                    /\ writer' = [writer EXCEPT ![local[p].project] =
                                     WriterAfterPut(p)]
               ELSE UNCHANGED <<namespaces, writer>>
          /\ Return(p, createOrUpdateMetadataResult(r))
    /\ UNCHANGED <<rolebindings, granted, op, args, local, started>>

createOrUpdateMetadataPut(p) ==
    /\ Running
    /\ pc[p] = "createOrUpdateMetadataPut"
    /\ \E r \in getOseHTTPClient("PUT", args[p].cluster, "namespace",
                                 local[p].project, local[p].json) :
          /\ sent' = Issue(p, "PUT", "namespace", local[p].project, r)
          /\ IF r.status = 200
               THEN /\ namespaces' =
                          [namespaces EXCEPT ![local[p].project] = local[p].json]
                    /\ writer' = [writer EXCEPT ![local[p].project] =
                                     WriterAfterPut(p)]
               ELSE UNCHANGED <<namespaces, writer>>
          /\ Return(p, createOrUpdateMetadataResult(r))
    /\ UNCHANGED <<rolebindings, granted, op, args, local, started>>

(***************************************************************************)
(* updateProjectInformationHandler and getProjectInformationHandler.       *)
(***************************************************************************)
\* mutant: the billing is not looked at
validateProjectInformation_NoBilling(clusterId, project, billing) ==
    IF clusterId = "" THEN ErrClusterMissing
    ELSE IF project = << >> THEN ErrProjectMissing
    ELSE Nil

\* validateProjectInformation, before its checkAdminPermissions call
validateProjectInformation(clusterId, project, billing) ==
    IF clusterId = "" THEN ErrClusterMissing
    ELSE IF project = << >> THEN ErrProjectMissing
    ELSE IF billing = << >> THEN ErrBilling
    ELSE Nil

\* validateAdminAccess, before its checkAdminPermissions call
validateAdminAccess(clusterId, project) ==
    IF clusterId = "" THEN ErrClusterMissing
    ELSE IF project = << >> THEN ErrProjectMissing
    ELSE Nil

\* the project names a query or an update may carry
QueryNames == RequestedNames \cup DOMAIN namespaces

updateProjectInformationHandler(p) ==
    /\ CanBegin(p)
    /\ \E bound \in BOOLEAN, c \in QueryClusterIds, n \in QueryNames,
       b \in UpdateBillings, m \in UpdateMegaIds, u \in Users :
        LET a == [bound |-> TRUE, requested |-> n, cluster |-> c, project |-> n,
                  billing |-> b, megaid |-> m, username |-> u, test |-> FALSE]
            err == validateProjectInformation(c, n, b)
        IN  IF ~bound
              THEN /\ Begin(p, "updateProjectInformation",
                            [NoArgs EXCEPT !.username = u], << >>)
                   /\ Reject(p, wrongAPIUsageError)
              ELSE /\ Begin(p, "updateProjectInformation", a, n)
                   /\ IF err # Nil
                        THEN Reject(p, err)
                        ELSE Proceed(p, "checkAdminPermissions")

getProjectInformationHandler(p) ==
    /\ CanBegin(p)
    /\ \E c \in QueryClusterIds, n \in QueryNames, u \in Users :
        LET a == [NoArgs EXCEPT !.bound = TRUE, !.requested = n, !.cluster = c,
                                !.project = n, !.username = u]
            err == validateAdminAccess(c, n)
        IN  /\ Begin(p, "getProjectInformation", a, n)
            /\ IF err # Nil
                 THEN Reject(p, err)
                 ELSE Proceed(p, "checkAdminPermissions")

\* checkAdminPermissions, the last step of both validations
checkAdminPermissions(p) ==
    /\ Running
    /\ pc[p] = "checkAdminPermissions"
    /\ \E r \in getOseHTTPClient("GET", args[p].cluster, "rolebinding",
                                 local[p].project, NoDoc) :
          /\ sent' = Issue(p, "GET", "rolebinding", local[p].project, r)
          /\ LET err == IF getAdminRoleBindingResult(r) # Nil
                          THEN getAdminRoleBindingResult(r)
                          ELSE IF IsAdmin(r.rb, args[p].username) THEN Nil
                          ELSE ErrNoAdmin
             IN  IF err # Nil
                   THEN /\ pc' = [pc EXCEPT ![p] = "done"]
                        /\ responses' = [responses EXCEPT ![p] =
                                            <<Response(400, err)>>]
                        /\ UNCHANGED <<ret, mail>>
                   ELSE Goto(p, IF op[p] = "updateProjectInformation"
                                  THEN "createOrUpdateMetadata"
                                  ELSE "getProjectInformation")
    /\ UNCHANGED <<namespaces, rolebindings, writer, granted, op, args, local,
                   started>>

\* getProjectInformation and the rest of getProjectInformationHandler: after an
\* error the handler writes its 400 and, not returning, the 200 as well
getProjectInformation(p) ==
    /\ Running
    /\ pc[p] = "getProjectInformation"
    /\ \E r \in getOseHTTPClient("GET", args[p].cluster, "namespace",
                                 local[p].project, NoDoc) :
          LET err == IF r.err # Nil THEN r.err
                     ELSE IF r.body.kind = "garbage" THEN genericAPIError
                     ELSE Nil
          IN  /\ sent' = Issue(p, "GET", "namespace", local[p].project, r)
              /\ pc' = [pc EXCEPT ![p] = "done"]
              /\ ret' = [ret EXCEPT ![p] = err]
              /\ IF err # Nil
                   THEN /\ responses' = [responses EXCEPT ![p] =
                               <<Response(400, err), Response(200, <<"null">>)>>]
                        /\ UNCHANGED local
                   ELSE /\ responses' = [responses EXCEPT ![p] =
                               <<Response(200, <<"pi">>)>>]
                        /\ local' = [local EXCEPT
                               ![p].before = r.body,
                               ![p].pi = ProjectInformation(r.body)]
    /\ UNCHANGED <<namespaces, rolebindings, writer, granted, op, args, mail,
                   started>>

(***************************************************************************)
(* getProjectsHandler and getUserProjects.                                 *)
(***************************************************************************)
getProjectsHandler(p) ==
    /\ CanBegin(p)
    /\ \E c \in QueryClusterIds, u \in Users :
        LET a == [NoArgs EXCEPT !.bound = TRUE, !.cluster = c, !.username = u]
        IN  /\ Begin(p, "getProjects", a, << >>)
            /\ IF c = ""
                 THEN Reject(p, wrongAPIUsageError)
                 ELSE Proceed(p, "getUserProjects")

\* getUserProjects: the name of every item of the list
ProjectNames(items) == [i \in 1..Len(items) |-> items[i].name]

\* mutant: only the projects the user is an admin of
getUserProjects_OnlyAccessible(p) ==
    /\ Running
    /\ pc[p] = "getUserProjects"
    /\ \E r \in getOseHTTPClient("GET", args[p].cluster, "projects", << >>, NoDoc) :
          LET err == IF r.err # Nil THEN r.err
                     ELSE IF r.body.kind = "garbage" THEN genericAPIError
                     ELSE IF r.body.kind # "ProjectList" THEN genericAPIError
                     ELSE Nil
          IN  /\ sent' = Issue(p, "GET", "projects", << >>, r)
              /\ pc' = [pc EXCEPT ![p] = "done"]
              /\ ret' = [ret EXCEPT ![p] = err]
              /\ IF err # Nil
                   THEN /\ responses' = [responses EXCEPT ![p] =
                                            <<Response(400, err)>>]
                        /\ UNCHANGED local
                   ELSE /\ responses' = [responses EXCEPT ![p] =
                                            <<Response(200, <<"projects">>)>>]
                        /\ local' = [local EXCEPT ![p].projectNames =
                               SelectSeq(ProjectNames(r.body.items),
                                   LAMBDA x : IsAdmin(rolebindings[x],
                                                      args[p].username))]
    /\ UNCHANGED <<namespaces, rolebindings, writer, granted, op, args, mail,
                   started>>

\* getUserProjects and the rest of getProjectsHandler
getUserProjects(p) ==
    /\ Running
    /\ pc[p] = "getUserProjects"
    /\ \E r \in getOseHTTPClient("GET", args[p].cluster, "projects", << >>, NoDoc) :
          LET err == IF r.err # Nil THEN r.err
                     ELSE IF r.body.kind = "garbage" THEN genericAPIError
                     ELSE IF r.body.kind # "ProjectList" THEN genericAPIError
                     ELSE Nil
          IN  /\ sent' = Issue(p, "GET", "projects", << >>, r)
              /\ pc' = [pc EXCEPT ![p] = "done"]
              /\ ret' = [ret EXCEPT ![p] = err]
              /\ IF err # Nil
                   THEN /\ responses' = [responses EXCEPT ![p] =
                                            <<Response(400, err)>>]
                        /\ UNCHANGED local
                   ELSE /\ responses' = [responses EXCEPT ![p] =
                                            <<Response(200, <<"projects">>)>>]
                        /\ local' = [local EXCEPT ![p].projectNames =
                                        ProjectNames(r.body.items)]
    /\ UNCHANGED <<namespaces, rolebindings, writer, granted, op, args, mail,
                   started>>

Next ==
    \E p \in Procs :
        \/ newProjectHandler(p)
        \/ newTestProjectHandler(p)
        \/ updateProjectInformationHandler(p)
        \/ getProjectInformationHandler(p)
        \/ createNewProject(p)
        \/ changeProjectPermission(p)
        \/ changeProjectPermissionPut(p)
        \/ createOrUpdateMetadata(p)
        \/ createOrUpdateMetadataPut(p)
        \/ checkAdminPermissions(p)
        \/ getProjectInformation(p)
        \/ getProjectsHandler(p)
        \/ getUserProjects(p)
        \/ Finish(p)

Spec == Init /\ [][Next]_vars

(***************************************************************************)
(* Every remote call returns: a handler that is blocked in a call, or has  *)
(* answered, takes its next step.  Whether a further request arrives is    *)
(* left open.                                                              *)
(***************************************************************************)
Step(p) ==
    \/ createNewProject(p)
    \/ changeProjectPermission(p)
    \/ changeProjectPermissionPut(p)
    \/ createOrUpdateMetadata(p)
    \/ createOrUpdateMetadataPut(p)
    \/ checkAdminPermissions(p)
    \/ getProjectInformation(p)
    \/ getUserProjects(p)
    \/ Finish(p)

SpecLive == Init /\ [][Next]_vars /\ \A p \in Procs : WF_vars(Step(p))

(***************************************************************************)
(* The functions called on their own, one call after the other, by one     *)
(* caller: validateNewProject on every input, changeProjectPermission on   *)
(* the project "p" as the platform created it.                             *)
(***************************************************************************)
Caller == "h1"

UnitProjects == {<<"p">>, <<"q">>}

InitUnit ==
    /\ namespaces = (<<"p">> :> FreshNamespace)
    /\ rolebindings = (<<"p">> :> FreshBinding)
    /\ writer = (<<"p">> :> NoWriter)
    /\ granted = (<<"p">> :> << >>)
    /\ InitHandlers

callValidateNewProject ==
    /\ CanBegin(Caller)
    /\ \E n \in RequestedNames, b \in Billings, t \in BOOLEAN :
          /\ Begin(Caller, "validateNewProject",
                   [NoArgs EXCEPT !.project = n, !.billing = b, !.test = t], n)
          /\ pc' = [pc EXCEPT ![Caller] = "done"]
          /\ ret' = [ret EXCEPT ![Caller] = validateNewProject(n, b, t)]
          /\ UNCHANGED responses

callChangeProjectPermission ==
    /\ CanBegin(Caller)
    /\ \E c \in ClusterIds, x \in UnitProjects, u \in Users :
          /\ Begin(Caller, "changeProjectPermission",
                   [NoArgs EXCEPT !.cluster = c, !.project = x, !.username = u], x)
          /\ Proceed(Caller, "changeProjectPermission")

NextUnit ==
    \/ callValidateNewProject
    \/ callChangeProjectPermission
    \/ changeProjectPermission(Caller)
    \/ changeProjectPermissionPut(Caller)
    \/ Finish(Caller)

SpecUnit == InitUnit /\ [][NextUnit]_vars

(***************************************************************************)
(* Vocabulary of the properties.                                           *)
(***************************************************************************)
Done(p) == pc[p] = "done"

Creating(p) == op[p] \in {"newProject", "newTestProject"} /\ args[p].bound

\* the requests of handler p on resource res
RequestsOn(p, res) == {i \in 1..Len(sent[p]) : sent[p][i].res = res}

\* handler p issued the creation POST and it was answered with status
PostAnswered(p, status) ==
    /\ Len(sent[p]) > 0
    /\ sent[p][1].method = "POST"
    /\ sent[p][1].status = status

\* handler p finished with the single response 400 and message msg
Answered400(p, msg) ==
    /\ Done(p)
    /\ responses[p] = <<[code |-> 400, msg |-> msg]>>

\* handler p finished with the single response 200
Answered200(p) ==
    /\ Done(p)
    /\ Len(responses[p]) = 1
    /\ responses[p][1].code = 200

\* the namespace document of the project handler p works on
Stored(p) == namespaces[local[p].project]

(***************************************************************************)
(* C1.  A creation request whose creation POST is answered with 409 ends   *)
(* with the already-exists error, which is not the generic remote-API      *)
(* error, and issues no request on the admin role binding and none on the  *)
(* namespace of the project: the POST is its only request.                 *)
(***************************************************************************)
C1_ConflictEndsAlreadyExists ==
    \A p \in Procs :
        (Creating(p) /\ PostAnswered(p, 409)) =>
            /\ Answered400(p, <<"The project already exists">>)
            /\ ret[p] = <<"The project already exists">>
            /\ ret[p] # genericAPIError
            /\ RequestsOn(p, "rolebinding") = {}
            /\ RequestsOn(p, "namespace") = {}
            /\ Len(sent[p]) = 1

C1_Witness ==
    \E p \in Procs :
        /\ Creating(p)
        /\ PostAnswered(p, 409)
        /\ Done(p)
        /\ local[p].project \in DOMAIN namespaces

(***************************************************************************)
(* C2.  Round trip: a getProjectInformation that returns without error for *)
(* a project whose namespace was last written by a successfully ended      *)
(* creation request returns the billing and the MEGA-ID supplied to that   *)
(* creation, an empty MEGA-ID included.                                    *)
(***************************************************************************)
ReadAfterCreation(p) ==
    /\ op[p] = "getProjectInformation"
    /\ Done(p)
    /\ Len(sent[p]) = 2
    /\ ret[p] = Nil
    /\ local[p].project \in DOMAIN writer
    /\ writer[local[p].project].op \in {"newProject", "newTestProject"}

C2_RoundTrip ==
    \A p \in Procs :
        ReadAfterCreation(p) =>
            /\ local[p].pi.kontierungsnummer = writer[local[p].project].args.billing
            /\ local[p].pi.megaid = writer[local[p].project].args.megaid

\* the round trip when the GET of the read is answered 200
C2_RoundTripOnStatus200 ==
    \A p \in Procs :
        (ReadAfterCreation(p) /\ sent[p][2].status = 200) =>
            /\ local[p].pi.kontierungsnummer = writer[local[p].project].args.billing
            /\ local[p].pi.megaid = writer[local[p].project].args.megaid

(***************************************************************************)
(* C3.  A successful createOrUpdateMetadata called with an empty MEGA-ID   *)
(* leaves the MEGA-ID annotation as the call fetched it (the same value,   *)
(* or absent), and the stored billing and requester annotations are the    *)
(* billing and the user name of the call.                                  *)
(***************************************************************************)
Upserted(p) ==
    /\ op[p] \in {"newProject", "newTestProject", "updateProjectInformation"}
    /\ Done(p)
    /\ ret[p] = Nil
    /\ Answered200(p)

C3_EmptyMegaIdKeepsAnnotation ==
    \A p \in Procs :
        (Upserted(p) /\ args[p].megaid = << >>) =>
            /\ AnnData(Stored(p), "openshift.io/MEGAID")
                 = AnnData(local[p].before, "openshift.io/MEGAID")
            /\ AnnData(Stored(p), "openshift.io/kontierung-element")
                 = <<args[p].billing>>
            /\ AnnData(Stored(p), "openshift.io/requester") = <<args[p].username>>

\* an update with an empty MEGA-ID of a project whose MEGA-ID is set, by another
\* user and with another billing than the ones stored
C3_Witness ==
    \E p \in Procs :
        /\ Upserted(p)
        /\ op[p] = "updateProjectInformation"
        /\ args[p].megaid = << >>
        /\ AnnData(local[p].before, "openshift.io/MEGAID") = << <<"m1">> >>
        /\ AnnData(local[p].before, "openshift.io/kontierung-element")
             # <<args[p].billing>>
        /\ AnnData(Stored(p), "openshift.io/MEGAID") = << <<"m1">> >>

\* a creation with an empty MEGA-ID: the annotation stays absent
C3_WitnessAbsent ==
    \E p \in Procs :
        /\ Upserted(p)
        /\ args[p].megaid = << >>
        /\ AnnData(Stored(p), "openshift.io/MEGAID") = << >>

(***************************************************************************)
(* C6.  A successfully ended test-project creation for the requested name  *)
(* n by the user u created the project ToLower(u + "-" + n); its stored    *)
(* billing annotation is "keine-verrechnung", its requester annotation is  *)
(* u, and the deletion-days and description annotations were set.  A       *)
(* successfully ended creation that is not a test sets neither: both are   *)
(* as the call fetched them.                                               *)
(***************************************************************************)
Created(p, name) ==
    /\ op[p] = name
    /\ args[p].bound
    /\ Done(p)
    /\ ret[p] = Nil
    /\ Answered200(p)

C6_TestProject ==
    \A p \in Procs :
        /\ Created(p, "newTestProject") =>
             /\ local[p].project
                  = ToLower(args[p].username \o <<"-">> \o args[p].requested)
             /\ sent[p][1].project = local[p].project
             /\ local[p].project \in DOMAIN namespaces
             /\ AnnData(Stored(p), "openshift.io/kontierung-element")
                  = << <<"keine-verrechnung">> >>
             /\ AnnData(Stored(p), "openshift.io/requester") = <<args[p].username>>
             /\ AnnData(Stored(p), "openshift.io/testproject-daystodeletion")
                  = <<testProjectDeletionDays>>
             /\ AnnData(Stored(p), "openshift.io/description") = <<TestDescription>>
             /\ TestDescription # << >>
        /\ Created(p, "newProject") =>
             /\ AnnData(Stored(p), "openshift.io/testproject-daystodeletion")
                  = AnnData(local[p].before, "openshift.io/testproject-daystodeletion")
             /\ AnnData(Stored(p), "openshift.io/testproject-daystodeletion") = << >>
             /\ AnnData(Stored(p), "openshift.io/description")
                  = AnnData(local[p].before, "openshift.io/description")

\* the user "B" created the test project "b-p" from the requested name "P"
C6_Witness ==
    \E p \in Procs :
        /\ Created(p, "newTestProject")
        /\ args[p].username = <<"B">>
        /\ args[p].requested = <<"P">>
        /\ local[p].project = <<"b", "-", "p">>
        /\ KeyDays \in DOMAIN Stored(p).annotations

C6_WitnessNoTest ==
    \E p \in Procs : Created(p, "newProject")

(***************************************************************************)
(* C8.  A creation request that names a cluster which is not configured    *)
(* issues no HTTP request, and the error createNewProject returns to the   *)
(* caller is the cluster-unknown error, which is not the generic           *)
(* remote-API error.                                                       *)
(***************************************************************************)
C8_UnknownCluster ==
    \A p \in Procs :
        (Creating(p) /\ args[p].cluster \notin {"c1"}) =>
            /\ sent[p] = << >>
            /\ Done(p) =>
                 /\ Len(responses[p]) = 1
                 /\ responses[p][1].code = 400
                 /\ responses[p][1].msg # genericAPIError
                 /\ ret[p] # genericAPIError
                 /\ (args[p].project # << >>
                       /\ (args[p].billing # << >> \/ args[p].test))
                      => /\ ret[p] = ErrClusterUnknown
                         /\ responses[p][1].msg = ErrClusterUnknown

C8_Witness ==
    \E p \in Procs :
        /\ Creating(p)
        /\ args[p].cluster = "cx"
        /\ Done(p)
        /\ ret[p] = ErrClusterUnknown

(***************************************************************************)
(* C9.  In newProjectHandler and newTestProjectHandler validation comes    *)
(* before every network call: a request with an empty project name, or     *)
(* with an empty billing when it is no test, ends with the validation      *)
(* error and issues no HTTP request.                                       *)
(***************************************************************************)
C9_ValidationBeforeNetwork ==
    \A p \in Procs :
        Creating(p) =>
            /\ args[p].project = << >> =>
                 /\ Answered400(p, <<"Project name has to be provided">>)
                 /\ sent[p] = << >>
            /\ (args[p].project # << >> /\ args[p].billing = << >> /\ ~args[p].test) =>
                 /\ Answered400(p, <<"Accounting number must be provided">>)
                 /\ sent[p] = << >>
            /\ (Done(p) /\ responses[p][1].msg \in ValidationErrors) =>
                 sent[p] = << >>

C9_Witness ==
    \E p \in Procs :
        /\ Creating(p)
        /\ args[p].project # << >>
        /\ args[p].billing = << >>
        /\ Answered400(p, <<"Accounting number must be provided">>)
        /\ sent[p] = << >>

(***************************************************************************)
(* C10.  When the creation POST was answered 201 and changeProjectPermission *)
(* then fails (its GET of the role binding fails, or its PUT is not        *)
(* answered 200), the creation request ends with the generic remote-API    *)
(* error, issues no request on the namespace and no request after the      *)
(* failed one (none that deletes the project), and the project exists.     *)
(***************************************************************************)
PermissionFailed(p) ==
    /\ Creating(p)
    /\ PostAnswered(p, 201)
    /\ \E i \in RequestsOn(p, "rolebinding") : sent[p][i].status # 200

C10_PermissionFailureIsFatal ==
    \A p \in Procs :
        PermissionFailed(p) =>
            /\ Answered400(p, genericAPIError)
            /\ ret[p] = genericAPIError
            /\ RequestsOn(p, "namespace") = {}
            /\ sent[p][Len(sent[p])].res = "rolebinding"
            /\ sent[p][Len(sent[p])].status # 200
            /\ \A i \in 1..Len(sent[p]) : sent[p][i].method \in {"POST", "GET", "PUT"}
            /\ \A i \in 2..Len(sent[p]) : sent[p][i].method # "POST"
            /\ Len(sent[p]) \in {2, 3}
            /\ local[p].project \in DOMAIN namespaces

\* the PUT of the role binding was not answered 200
C10_Witness ==
    \E p \in Procs :
        /\ PermissionFailed(p)
        /\ Len(sent[p]) = 3
        /\ sent[p][3].method = "PUT"
        /\ sent[p][3].status = 500

\* the GET of the role binding failed
C10_WitnessGet ==
    \E p \in Procs :
        /\ PermissionFailed(p)
        /\ Len(sent[p]) = 2
        /\ sent[p][2].method = "GET"

(***************************************************************************)
(* C4.  As stated: after two successful changeProjectPermission calls for  *)
(* the same user on a project whose member list did not contain the user,  *)
(* the admin role binding holds two entries for the user, the lower-case   *)
(* and the upper-case form of the name.                                    *)
(***************************************************************************)
\* the entries of the admin role binding of project x that name user u
EntriesOf(x, u) ==
    {i \in 1..Len(rolebindings[x].userNames) :
        ToLower(rolebindings[x].userNames[i]) = ToLower(u)}

GrantedTwice(x, u) == x \in DOMAIN granted /\ granted[x] = <<u, u>>

GrantedOnce(x, u) == x \in DOMAIN granted /\ granted[x] = <<u>>

C5_GrantIdempotent ==
    \A x \in DOMAIN granted : \A u \in Users :
        (/\ GrantedTwice(x, u)
         /\ Done(Caller)
         /\ op[Caller] = "changeProjectPermission"
         /\ ret[Caller] = Nil
         /\ local[Caller].project = x) =>
            rolebindings[x].userNames = local[Caller].rbBefore.userNames

(***************************************************************************)
(* C7.  validateNewProject(project, billing, testProject) returns no error *)
(* exactly when project is not empty and billing is not empty or           *)
(* testProject is set; for an empty project it returns the                 *)
(* missing-project-name error whatever billing and testProject are; for a  *)
(* project that is not empty, an empty billing and no test project, the    *)
(* missing-billing error.                                                  *)
(***************************************************************************)
Validated(p) == op[p] = "validateNewProject" /\ Done(p)

C7_ValidateNewProject ==
    \A p \in Procs :
        Validated(p) =>
            /\ ret[p] = Nil <=>
                 (args[p].project # << >>
                    /\ (args[p].billing # << >> \/ args[p].test))
            /\ args[p].project = << >> =>
                 ret[p] = <<"Project name has to be provided">>
            /\ (args[p].project # << >> /\ args[p].billing = << >> /\ ~args[p].test)
                 => ret[p] = <<"Accounting number must be provided">>

\* a test project with an empty billing passes
C7_Witness ==
    \E p \in Procs :
        /\ Validated(p)
        /\ args[p].test
        /\ args[p].billing = << >>
        /\ args[p].project # << >>
        /\ ret[p] = Nil

\* an empty project name with testProject set fails
C7_WitnessEmptyName ==
    \E p \in Procs :
        /\ Validated(p)
        /\ args[p].test
        /\ args[p].project = << >>
        /\ ret[p] = ErrProjectName

(***************************************************************************)
(* C11.  When the creation POST was answered 201, changeProjectPermission  *)
(* succeeded and createOrUpdateMetadata then fails, the creation request   *)
(* ends with the generic remote-API error while the project exists and the *)
(* admin role binding holds the entries of the creator as step 3 wrote     *)
(* them: the failed request is the last one, no request follows it.        *)
(***************************************************************************)
MetadataFailed(p) ==
    /\ Creating(p)
    /\ PostAnswered(p, 201)
    /\ Done(p)
    /\ Len(sent[p]) >= 4
    /\ sent[p][3].method = "PUT" /\ sent[p][3].res = "rolebinding"
    /\ sent[p][3].status = 200
    /\ sent[p][Len(sent[p])].res = "namespace"
    /\ sent[p][Len(sent[p])].status # 200

C11_MetadataFailureKeepsProject ==
    \A p \in Procs :
        MetadataFailed(p) =>
            /\ Answered400(p, genericAPIError)
            /\ ret[p] = genericAPIError
            /\ local[p].project \in DOMAIN namespaces
            /\ rolebindings[local[p].project] = local[p].rb
            /\ \E i, j \in 1..Len(rolebindings[local[p].project].userNames) :
                  /\ i < j
                  /\ rolebindings[local[p].project].userNames[i]
                       = ToLower(args[p].username)
                  /\ rolebindings[local[p].project].userNames[j]
                       = ToUpper(args[p].username)
            /\ RequestsOn(p, "rolebinding") = {2, 3}
            /\ RequestsOn(p, "namespace") = 4..Len(sent[p])
            /\ Len(sent[p]) \in {4, 5}
            /\ \A i \in 1..Len(sent[p]) : sent[p][i].method \in {"POST", "GET", "PUT"}
            /\ \A i \in 2..Len(sent[p]) : sent[p][i].method # "POST"

\* the PUT of the namespace was answered 500: the project is left without billing
C11_Witness ==
    \E p \in Procs :
        /\ MetadataFailed(p)
        /\ Len(sent[p]) = 5
        /\ sent[p][4].status = 200
        /\ sent[p][5].method = "PUT"
        /\ sent[p][5].status = 500
        /\ AnnData(Stored(p), "openshift.io/kontierung-element") = << >>
        /\ IsAdmin(rolebindings[local[p].project], args[p].username)

\* the GET of the namespace failed at transport level
C11_WitnessGet ==
    \E p \in Procs :
        /\ MetadataFailed(p)
        /\ Len(sent[p]) = 4
        /\ sent[p][4].method = "GET"

(***************************************************************************)
(* C12.  A creation request whose creation POST is answered with a status  *)
(* other than 201 and 409, or fails at transport level, ends with the      *)
(* generic remote-API error and issues no further request: none on the     *)
(* admin role binding, none on the namespace.                              *)
(***************************************************************************)
PostFailed(p) ==
    /\ Creating(p)
    /\ Len(sent[p]) > 0
    /\ sent[p][1].method = "POST"
    /\ sent[p][1].status \notin {201, 409}

C12_PostFailureIsTerminal ==
    \A p \in Procs :
        PostFailed(p) =>
            /\ Answered400(p, genericAPIError)
            /\ ret[p] = genericAPIError
            /\ Len(sent[p]) = 1
            /\ RequestsOn(p, "rolebinding") = {}
            /\ RequestsOn(p, "namespace") = {}

\* the POST was answered 500
C12_Witness ==
    \E p \in Procs :
        /\ PostFailed(p)
        /\ sent[p][1].status = 500
        /\ Done(p)

\* the POST failed at transport level
C12_WitnessTransport ==
    \E p \in Procs :
        /\ PostFailed(p)
        /\ sent[p][1].status = 0
        /\ Done(p)

(***************************************************************************)
(* C13.  createOrUpdateMetadata has no optimistic-concurrency check: a     *)
(* call that returned ok stored exactly the document it built from the     *)
(* document it fetched, also when another call's PUT replaced the stored   *)
(* document between its GET and its PUT; what that other call wrote and    *)
(* this call does not set (a MEGA-ID, when this call's MEGA-ID is empty)   *)
(* is then as this call fetched it, not as the other call wrote it.        *)
(***************************************************************************)
\* the PUT of p replaced a document other than the one p had fetched
Raced(p) ==
    /\ Upserted(p)
    /\ writer[local[p].project].replaced # local[p].before

C13_LastPutWins ==
    \A p \in Procs :
        Upserted(p) =>
            /\ Stored(p) = local[p].json
            /\ writer[local[p].project].args = args[p]
            /\ (Raced(p) /\ args[p].megaid = << >>) =>
                 AnnData(Stored(p), "openshift.io/MEGAID")
                   = AnnData(local[p].before, "openshift.io/MEGAID")

\* both updates fetched the MEGA-ID "m1"; the first stored "m2" and returned ok,
\* the second, with an empty MEGA-ID, returned ok and "m1" is stored again
C13_Witness ==
    \E p \in Procs :
        /\ Raced(p)
        /\ op[p] = "updateProjectInformation"
        /\ args[p].megaid = << >>
        /\ AnnData(local[p].before, "openshift.io/MEGAID") = << <<"m1">> >>
        /\ AnnData(writer[local[p].project].replaced, "openshift.io/MEGAID")
             = << <<"m2">> >>
        /\ AnnData(Stored(p), "openshift.io/MEGAID") = << <<"m1">> >>

(***************************************************************************)
(* C14.  Two creation requests in progress at the same time for the same   *)
(* cluster and for names that are equal when lower-cased both issue the    *)
(* creation POST, for the same project; at most one of the two POSTs is    *)
(* answered 201, and a request whose POST is answered 409 ends with the    *)
(* already-exists error and issues no request on the admin role binding    *)
(* and none on the namespace.                                              *)
(***************************************************************************)
\* the names a and b differ by case at most
SameNameLowerCased(a, b) ==
    /\ Len(a) = Len(b)
    /\ \A i \in 1..Len(a) : LowerOf(a[i]) = LowerOf(b[i])

\* p and q are creation requests in progress for the same cluster and name,
\* and both have issued their creation POST
BothPosted(p, q) ==
    /\ p # q
    /\ Creating(p) /\ Creating(q)
    /\ args[p].cluster = args[q].cluster
    /\ SameNameLowerCased(args[p].project, args[q].project)
    /\ Len(sent[p]) > 0 /\ Len(sent[q]) > 0

C14_AtMostOneCreates ==
    \A p, q \in Procs :
        BothPosted(p, q) =>
            /\ sent[p][1].method = "POST" /\ sent[q][1].method = "POST"
            /\ sent[p][1].project = sent[q][1].project
            /\ ~(sent[p][1].status = 201 /\ sent[q][1].status = 201)
            /\ sent[q][1].status = 409 =>
                 /\ Answered400(q, <<"The project already exists">>)
                 /\ Len(sent[q]) = 1
            /\ sent[q][1].status # 201 =>
                 /\ RequestsOn(q, "rolebinding") = {}
                 /\ RequestsOn(q, "namespace") = {}

\* the request for "P" was answered 201 and goes on, the one for "p" ended 409
C14_Witness ==
    \E p, q \in Procs :
        /\ BothPosted(p, q)
        /\ args[p].project = <<"P">>
        /\ args[q].project = <<"p">>
        /\ sent[p][1].status = 201
        /\ pc[p] = "createOrUpdateMetadata"
        /\ sent[q][1].status = 409
        /\ Done(q)

(***************************************************************************)
(* C15.  createOrUpdateMetadata returns the generic remote-API error       *)
(* whenever its GET of the namespace was answered with a status that is    *)
(* not 2xx, and returns no error only when its GET and its PUT were both   *)
(* answered 200.                                                           *)
(***************************************************************************)
\* the calls of createOrUpdateMetadata: the namespace requests of a creation or
\* of an update
UpsertCalled(p) ==
    /\ op[p] \in {"newProject", "newTestProject", "updateProjectInformation"}
    /\ Done(p)
    /\ RequestsOn(p, "namespace") # {}

\* the first request on the namespace, the GET of the call
UpsertGet(p) ==
    sent[p][CHOOSE i \in RequestsOn(p, "namespace") :
                \A j \in RequestsOn(p, "namespace") : i <= j]

\* the last request on the namespace
UpsertLast(p) == sent[p][Len(sent[p])]

Provisioned(p) ==
    /\ op[p] = "newProject"
    /\ args[p].bound
    /\ Done(p)
    /\ Len(sent[p]) = 5
    /\ sent[p][5].method = "PUT" /\ sent[p][5].res = "namespace"
    /\ sent[p][5].status = 200

C16_MailNeverFatal ==
    \A p \in Procs :
        /\ mail[p] # "none" => Provisioned(p) /\ ret[p] = Nil
        /\ Provisioned(p) =>
             /\ ret[p] = Nil
             /\ mail[p] \in {"sent", "failed"}
             /\ Answered200(p)
        /\ (Done(p) /\ ~Provisioned(p)) => mail[p] = "none"

\* the mail failed and the request was answered 200
C16_Witness ==
    \E p \in Procs :
        /\ Provisioned(p)
        /\ mail[p] = "failed"
        /\ Answered200(p)
        /\ AnnData(Stored(p), "openshift.io/kontierung-element") = <<args[p].billing>>

(***************************************************************************)
(* C17.  getProjectInformation issues one request, a GET, and leaves the   *)
(* namespaces and the role bindings of the cluster as they are; when the   *)
(* GET is answered 200 it returns the value of the billing annotation and  *)
(* the value of the MEGA-ID annotation of the stored namespace document,   *)
(* each replaced by the empty string when the annotation is absent.        *)
(***************************************************************************)
\* the value of annotation key of document doc, "" when absent
ValueOrEmpty(doc, key) ==
    IF key \in DOMAIN doc.annotations THEN doc.annotations[key] ELSE << >>

C17_ReadsAnnotations ==
    [][\A p \in Procs :
          (pc[p] = "getProjectInformation" /\ pc'[p] = "done") =>
              /\ namespaces' = namespaces
              /\ rolebindings' = rolebindings
              /\ Len(sent'[p]) = Len(sent[p]) + 1
              /\ sent'[p][Len(sent'[p])].method = "GET"
              /\ sent'[p][Len(sent'[p])].status = 200 =>
                   /\ ret'[p] = Nil
                   /\ local'[p].pi.kontierungsnummer
                        = ValueOrEmpty(namespaces[local[p].project],
                                       "openshift.io/kontierung-element")
                   /\ local'[p].pi.megaid
                        = ValueOrEmpty(namespaces[local[p].project],
                                       "openshift.io/MEGAID")]_vars

\* the information of a project whose creation has not yet written the metadata:
\* both annotations are absent, both values are ""
C17_Witness ==
    \E p \in Procs :
        /\ op[p] = "getProjectInformation"
        /\ Done(p)
        /\ ret[p] = Nil
        /\ Len(sent[p]) = 2
        /\ sent[p][2].method = "GET" /\ sent[p][2].res = "namespace"
        /\ sent[p][2].status = 200
        /\ DOMAIN Stored(p).annotations \cap {KeyBilling, KeyMegaId} = {}
        /\ local[p].pi = [kontierungsnummer |-> << >>, megaid |-> << >>]

\* the information of a project with both annotations
C17_WitnessPresent ==
    \E p \in Procs :
        /\ op[p] = "getProjectInformation"
        /\ Done(p)
        /\ ret[p] = Nil
        /\ Len(sent[p]) = 2
        /\ sent[p][2].method = "GET" /\ sent[p][2].res = "namespace"
        /\ sent[p][2].status = 200
        /\ local[p].pi = [kontierungsnummer |-> <<"k1">>, megaid |-> <<"m1">>]

(***************************************************************************)
(* C18.  getUserProjects is not filtered by access: when the list request  *)
(* is answered 200 its result holds the name of every project of the       *)
(* cluster, each once, whoever the user is: the result is determined by    *)
(* the cluster alone.                                                      *)
(***************************************************************************)
Listed(p) ==
    /\ op[p] = "getProjects"
    /\ Done(p)
    /\ Len(sent[p]) = 1
    /\ sent[p][1].status = 200

C18_ListUnfiltered ==
    \A p \in Procs :
        Listed(p) =>
            /\ ret[p] = Nil
            /\ Answered200(p)
            /\ sent[p][1].method = "GET"
            /\ {local[p].projectNames[i] : i \in 1..Len(local[p].projectNames)}
                 = DOMAIN namespaces
            /\ Len(local[p].projectNames) = Cardinality(DOMAIN namespaces)

\* the user "B" is listed a project of which "B" is no admin
C18_Witness ==
    \E p \in Procs :
        /\ Listed(p)
        /\ args[p].username = <<"B">>
        /\ \E i \in 1..Len(local[p].projectNames) :
              ~IsAdmin(rolebindings[local[p].projectNames[i]], <<"B">>)

\* two projects are listed
C18_WitnessTwo ==
    \E p \in Procs : Listed(p) /\ Len(local[p].projectNames) = 2

(***************************************************************************)
(* C19.  The requests of one creation request come in the order creation   *)
(* POST, GET and PUT of the admin role binding, GET and PUT of the         *)
(* namespace: a request on the role binding follows a POST answered 201, a *)
(* request on the namespace follows a PUT of the role binding answered     *)
(* 200, and a namespace is only ever written by a creation whose user this *)
(* creation has granted admin before.                                      *)
(***************************************************************************)
\* request i of handler p is method on res
IsRequest(p, i, method, res) ==
    sent[p][i].method = method /\ sent[p][i].res = res

C19_StepsInOrder ==
    /\ \A p \in Procs :
          Creating(p) =>
              /\ Len(sent[p]) <= 5
              /\ Len(sent[p]) >= 1 => IsRequest(p, 1, "POST", "projectrequests")
              /\ Len(sent[p]) >= 2 =>
                   /\ IsRequest(p, 2, "GET", "rolebinding")
                   /\ sent[p][1].status = 201
              /\ Len(sent[p]) >= 3 =>
                   /\ IsRequest(p, 3, "PUT", "rolebinding")
              /\ Len(sent[p]) >= 4 =>
                   /\ IsRequest(p, 4, "GET", "namespace")
                   /\ sent[p][3].status = 200
                   /\ args[p].username \in
                        {granted[local[p].project][i] :
                            i \in 1..Len(granted[local[p].project])}
                   /\ IsAdmin(rolebindings[local[p].project], args[p].username)
              /\ Len(sent[p]) >= 5 => IsRequest(p, 5, "PUT", "namespace")
    /\ \A x \in DOMAIN writer :
          writer[x].op \in {"newProject", "newTestProject"} =>
              /\ Len(granted[x]) >= 1
              /\ granted[x][1] = writer[x].args.username

\* a creation that went through all five requests
C19_Witness ==
    \E p \in Procs :
        /\ Creating(p)
        /\ Done(p)
        /\ Len(sent[p]) = 5
        /\ \A i \in 1..5 : sent[p][i].status \in {200, 201}
        /\ ret[p] = Nil

(***************************************************************************)
(* C20.  Every handler request writes exactly one response: a handler that *)
(* has ended wrote one; getProjectInformationHandler, after the access     *)
(* validation passed, wrote either the error of getProjectInformation or   *)
(* the project information, not both.                                      *)
(***************************************************************************)
Handlers ==
    {"newProject", "newTestProject", "updateProjectInformation",
     "getProjectInformation", "getProjects"}

C20_ExactlyOneResponse ==
    \A p \in Procs :
        (Done(p) /\ op[p] \in Handlers) =>
            /\ Len(responses[p]) = 1
            /\ (op[p] = "getProjectInformation" /\ ret[p] # Nil) =>
                 responses[p] = <<[code |-> 400, msg |-> ret[p]]>>

(***************************************************************************)
(* C21.  updateProjectInformationHandler issues a request on the namespace *)
(* only after validateProjectInformation succeeded: cluster, project and   *)
(* billing are not empty and the admin check for the user on the project   *)
(* passed.  A request that fails the validation ends with its error and    *)
(* issues no request on the namespace, so no PUT.                          *)
(***************************************************************************)
Updating(p) == op[p] = "updateProjectInformation" /\ args[p].bound

\* the fields of the update of p pass the checks of validateProjectInformation
FieldsProvided(p) ==
    /\ args[p].cluster # ""
    /\ args[p].project # << >>
    /\ args[p].billing # << >>

\* the admin check of p passed: its GET of the role binding was answered 200 and
\* the user is among the admins
AdminCheckPassed(p) ==
    /\ Len(sent[p]) >= 1
    /\ sent[p][1].method = "GET" /\ sent[p][1].res = "rolebinding"
    /\ sent[p][1].project = args[p].project
    /\ sent[p][1].status = 200
    /\ IsAdmin(rolebindings[args[p].project], args[p].username)

C21_UpdateOnlyAfterValidation ==
    \A p \in Procs :
        Updating(p) =>
            /\ RequestsOn(p, "namespace") # {} =>
                 /\ FieldsProvided(p)
                 /\ AdminCheckPassed(p)
                 /\ RequestsOn(p, "namespace") = 2..Len(sent[p])
            /\ (Done(p) /\ ~(FieldsProvided(p) /\ AdminCheckPassed(p))) =>
                 /\ RequestsOn(p, "namespace") = {}
                 /\ \A i \in 1..Len(sent[p]) : sent[p][i].method = "GET"
                 /\ Len(responses[p]) = 1
                 /\ responses[p][1].code = 400
            /\ ~FieldsProvided(p) => sent[p] = << >>

\* the user "B" is no admin of the project: the update ends after the admin check
C21_Witness ==
    \E p \in Procs :
        /\ Updating(p)
        /\ Done(p)
        /\ FieldsProvided(p)
        /\ args[p].username = <<"B">>
        /\ Len(sent[p]) = 1
        /\ sent[p][1].status = 200
        /\ Answered400(p, ErrNoAdmin)
        /\ AnnData(namespaces[args[p].project], "openshift.io/kontierung-element")
             = << <<"k1">> >>

\* an update without billing ends before any request
C21_WitnessNoBilling ==
    \E p \in Procs :
        /\ Updating(p)
        /\ args[p].cluster = "c1"
        /\ args[p].project \in DOMAIN namespaces
        /\ args[p].billing = << >>
        /\ Answered400(p, <<"Accounting number must be provided">>)
        /\ sent[p] = << >>

\* an update that passed the validation and wrote the namespace
C21_WitnessPassed ==
    \E p \in Procs :
        /\ Updating(p)
        /\ Done(p)
        /\ Len(sent[p]) = 3
        /\ sent[p][3].method = "PUT"
        /\ sent[p][3].status = 200

(***************************************************************************)
(* C22.  Every creation request, when each remote call it issues returns,  *)
(* eventually ends, with or without an error; and it never retries: it     *)
(* issues at most one creation POST, one GET and one PUT of the admin role *)
(* binding, one GET and one PUT of the namespace.                          *)
(***************************************************************************)
\* how many requests method on res handler p has issued
Count(p, method, res) ==
    Cardinality({i \in 1..Len(sent[p]) :
                    sent[p][i].method = method /\ sent[p][i].res = res})

NoRetry(p) ==
    /\ Count(p, "POST", "projectrequests") <= 1
    /\ Count(p, "GET", "rolebinding") <= 1
    /\ Count(p, "PUT", "rolebinding") <= 1
    /\ Count(p, "GET", "namespace") <= 1
    /\ Count(p, "PUT", "namespace") <= 1

C22_CreationTerminatesNoRetry ==
    /\ [](\A p \in Procs : Creating(p) => NoRetry(p))
    /\ \A p \in Procs :
          (Creating(p) /\ ~Done(p)) ~> (Creating(p) /\ Done(p))

\* a creation that ended after a request that failed
C22_Witness ==
    \E p \in Procs :
        /\ Creating(p)
        /\ Done(p)
        /\ ret[p] # Nil
        /\ Len(sent[p]) = 5
        /\ sent[p][5].status = 500

\* a creation that ended without error
C22_WitnessDone ==
    \E p \in Procs :
        /\ Creating(p)
        /\ Done(p)
        /\ ret[p] = Nil
        /\ Len(sent[p]) = 5

(***************************************************************************)
(* C23.  A createOrUpdateMetadata call that returned ok, and whose PUT     *)
(* replaced the document it had fetched, wrote that document back whole:   *)
(* the stored document has the annotations it had before and the keys the  *)
(* call sets (billing, requester, the MEGA-ID when it is not empty, for a  *)
(* test project the deletion days and the description), and every          *)
(* annotation under another key has the value it had before.  A call that  *)
(* is no test leaves the deletion days and the description of a test       *)
(* project as they were.                                                   *)
(***************************************************************************)
\* the annotation keys a call with the arguments a sets
KeysSet(a) ==
    {"openshift.io/kontierung-element", "openshift.io/requester"}
      \cup (IF a.test THEN {"openshift.io/testproject-daystodeletion",
                            "openshift.io/description"}
                      ELSE {})
      \cup (IF a.megaid # << >> THEN {"openshift.io/MEGAID"} ELSE {})

C23_UpsertKeepsOtherAnnotations ==
    \A p \in Procs :
        (Upserted(p) /\ ~Raced(p)) =>
            LET old == writer[local[p].project].replaced
                new == Stored(p)
            IN  /\ new.kind = old.kind
                /\ DOMAIN new.annotations
                     = DOMAIN old.annotations \cup KeysSet(args[p])
                /\ \A k \in DOMAIN old.annotations \ KeysSet(args[p]) :
                      new.annotations[k] = old.annotations[k]

\* an update, no test, of a test project: deletion days and description stay
C23_Witness ==
    \E p \in Procs :
        /\ Upserted(p)
        /\ ~Raced(p)
        /\ op[p] = "updateProjectInformation"
        /\ AnnData(writer[local[p].project].replaced,
                   "openshift.io/testproject-daystodeletion")
             = <<testProjectDeletionDays>>
        /\ AnnData(writer[local[p].project].replaced,
                   "openshift.io/kontierung-element") = << <<"keine-verrechnung">> >>
        /\ AnnData(Stored(p), "openshift.io/testproject-daystodeletion")
             = <<testProjectDeletionDays>>
        /\ AnnData(Stored(p), "openshift.io/description") = <<TestDescription>>
        /\ AnnData(Stored(p), "openshift.io/kontierung-element") = << <<"k2">> >>

(***************************************************************************)
(* C24.  After a sequence of createOrUpdateMetadata calls on one project   *)
(* that returned ok and did not overlap (the one of its creation, then any *)
(* explicit updates), the requester annotation is the user of the last     *)
(* call, the billing annotation the billing of the last call, and the      *)
(* MEGA-ID annotation the last MEGA-ID of the sequence that was not empty; *)
(* when every MEGA-ID was empty the annotation is absent, as it was before *)
(* the creation.                                                           *)
(***************************************************************************)
\* the namespace of x was written, by calls of which none overlapped another
WrittenInSequence(x) ==
    /\ x \in DOMAIN writer
    /\ writer[x].op # "none"
    /\ ~writer[x].overlap

C24_LastUpsertDecides ==
    \A x \in DOMAIN writer :
        WrittenInSequence(x) =>
            /\ AnnData(namespaces[x], "openshift.io/requester")
                 = <<writer[x].args.username>>
            /\ AnnData(namespaces[x], "openshift.io/kontierung-element")
                 = <<writer[x].args.billing>>
            /\ AnnData(namespaces[x], "openshift.io/MEGAID")
                 = IF writer[x].lastMegaId = << >> THEN << >>
                                                  ELSE <<writer[x].lastMegaId>>
            /\ AnnData(FreshNamespace, "openshift.io/MEGAID") = << >>

\* creation with "m1", update with "m2", update with an empty MEGA-ID: "m2" stays
C24_Witness ==
    \E x \in DOMAIN writer :
        /\ WrittenInSequence(x)
        /\ writer[x].op = "updateProjectInformation"
        /\ writer[x].args.megaid = << >>
        /\ writer[x].lastMegaId = <<"m2">>
        /\ AnnData(writer[x].replaced, "openshift.io/MEGAID") = << <<"m2">> >>
        /\ AnnData(namespaces[x], "openshift.io/MEGAID") = << <<"m2">> >>
        /\ AnnData(namespaces[x], "openshift.io/kontierung-element") = << <<"k2">> >>

\* a project whose calls all had an empty MEGA-ID
C24_WitnessAbsent ==
    \E x \in DOMAIN writer :
        /\ WrittenInSequence(x)
        /\ writer[x].op = "updateProjectInformation"
        /\ writer[x].lastMegaId = << >>
        /\ AnnData(namespaces[x], "openshift.io/MEGAID") = << >>

(***************************************************************************)
(* C25.  newTestProjectHandler validates the prefixed name, creator + "-"  *)
(* + requested name, so a test-project request never ends with a           *)
(* validation error: it goes on to createNewProject, with an empty         *)
(* requested name too, for which the project of the creation POST is the   *)
(* lower-cased creator + "-".                                              *)
(***************************************************************************)
TestCreating(p) == op[p] = "newTestProject" /\ args[p].bound

\* the lower-case form of the name s, character by character
LowerCased(s) == [i \in 1..Len(s) |-> LowerOf(s[i])]

C25_TestNameAlwaysValid ==
    \A p \in Procs :
        TestCreating(p) =>
            /\ args[p].project = args[p].username \o <<"-">> \o args[p].requested
            /\ \A i \in 1..Len(responses[p]) :
                  /\ responses[p][i].msg # <<"Project name has to be provided">>
                  /\ responses[p][i].msg # <<"Accounting number must be provided">>
            /\ pc[p] # "createNewProject" =>
                 \/ Len(sent[p]) >= 1
                 \/ Answered400(p, ErrClusterUnknown)
            /\ Len(sent[p]) >= 1 =>
                 /\ sent[p][1].method = "POST"
                 /\ sent[p][1].project
                      = LowerCased(args[p].username \o <<"-">> \o args[p].requested)

\* the user "B" requested the empty name: the project "b-" was created
C25_Witness ==
    \E p \in Procs :
        /\ TestCreating(p)
        /\ args[p].requested = << >>
        /\ args[p].username = <<"B">>
        /\ Len(sent[p]) >= 1
        /\ sent[p][1].project = <<"b", "-">>
        /\ sent[p][1].status = 201
        /\ <<"b", "-">> \in DOMAIN namespaces

(***************************************************************************)
(* C26.  Every request of one creation request names the same project,     *)
(* the lower-cased name of the request: the creation POST, the GET and the *)
(* PUT of the admin role binding and the GET and the PUT of the namespace, *)
(* for names with upper-case letters too.                                  *)
(***************************************************************************)
C26_SameLowerCasedName ==
    \A p \in Procs :
        Creating(p) =>
            \A i \in 1..Len(sent[p]) :
                /\ sent[p][i].project = LowerCased(args[p].project)
                /\ sent[p][i].project = sent[p][1].project
                /\ sent[p][i].res \in {"projectrequests", "rolebinding", "namespace"}

\* the creation of "P" went through its five requests, all of them for "p"
C26_Witness ==
    \E p \in Procs :
        /\ Creating(p)
        /\ args[p].project = <<"P">>
        /\ Len(sent[p]) = 5
        /\ \A i \in 1..5 : sent[p][i].project = <<"p">>
        /\ sent[p][5].status = 200

\* the test project of the user "B": all five requests are for "b-p"
C26_WitnessTest ==
    \E p \in Procs :
        /\ Creating(p)
        /\ args[p].project = <<"B", "-", "P">>
        /\ Len(sent[p]) = 5
        /\ \A i \in 1..5 : sent[p][i].project = <<"b", "-", "p">>

====
